---- MODULE Spec2Model ----
(***************************************************************************)
(* Model of the admin router of app/routes/admins.py: twelve HTTP handlers *)
(* over the Order and Product tables, all behind the get_current_admin     *)
(* dependency.  A request is handled atomically (one session, one commit). *)
(*                                                                         *)
(* Nullable columns and optional JSON keys are modelled as sequences of    *)
(* length at most one: Null is <<>>, a present value v is <<v>>.           *)
(* Numbers are modelled by their numeric value; the handlers' float() and  *)
(* int() calls are applied to numbers only and keep that value.            *)
(***************************************************************************)
EXTENDS Integers, Sequences, FiniteSets, TLC

VARIABLES
    products,   \* Product table: id -> row
    orders,     \* Order table: id -> row
    nextId,     \* next autoincrement id of the Product table
    clock,      \* datetime.utcnow(), in days
    req,        \* the request being answered
    resp,       \* the response to it
    history     \* history variable: the exchange before this one, and the
                \* Product table before each of the two

vars == <<products, orders, nextId, clock, req, resp, history>>

----------------------------------------------------------------------------
\* Bounds of the model

\* largest id add_product may hand out
MaxProducts == 2
\* largest price of a price slot in the listing specification
MaxPrice == 2
\* largest number of orders in the dashboard specifications
MaxOrders == 2
\* how far the clock may advance
MaxTicks == 1

----------------------------------------------------------------------------
\* Values

Null == <<>>

Some(v) == <<v>>

\* Python truthiness of a nullable number: None and 0 are falsy
TruthyNum(o) == o # Null /\ o[1] # 0

\* Python truthiness of a nullable string: None and "" are falsy
TruthyStr(o) == o # Null /\ o[1] # ""

\* x or "" on a nullable string
OrEmpty(o) == IF TruthyStr(o) THEN o[1] ELSE ""

RECURSIVE SumSeq(_)
SumSeq(s) == IF s = <<>> THEN 0 ELSE Head(s) + SumSeq(Tail(s))

RECURSIVE SetSum(_, _)
SetSum(S, f) ==
    IF S = {} THEN 0
    ELSE LET x == CHOOSE y \in S : TRUE IN f[x] + SetSum(S \ {x}, f)

SetMax(S) == CHOOSE x \in S : \A y \in S : y <= x

\* the ids of a table in the order a full scan yields them
RECURSIVE ScanOrder(_)
ScanOrder(S) ==
    IF S = {} THEN <<>>
    ELSE LET m == CHOOSE x \in S : \A y \in S : x <= y
         IN <<m>> \o ScanOrder(S \ {m})

----------------------------------------------------------------------------
\* Authorization gate

Credentials == {"admin_jwt", "none"}

\* app.routes.admins_ops.get_current_admin: an Admin for a valid admin
\* credential, an Unauthorized failure otherwise
get_current_admin(cred) == cred = "admin_jwt"

\* a router without the dependency
RouterNoDependencies(cred) == TRUE

\* APIRouter(dependencies=[Depends(get_current_admin)]): the dependency runs
\* for every route of the router, before the handler
router(cred) == get_current_admin(cred)

Reply(status, body) == resp' = [status |-> status, body |-> body]

\* the history variable is kept only by the specification that starts it
Track ==
    IF history.on
    THEN history' = [on |-> TRUE, before |-> products, prior_req |-> req,
                     prior_resp |-> resp, prior_before |-> history.before]
    ELSE UNCHANGED history

\* a handler runs at one instant of the clock
Handled == UNCHANGED clock /\ Track

Unauthorized ==
    /\ Reply(401, [detail |-> "Not authenticated"])
    /\ UNCHANGED <<products, orders, nextId>>

NotFound(detail) ==
    /\ Reply(404, [detail |-> detail])
    /\ UNCHANGED <<products, orders, nextId>>

----------------------------------------------------------------------------
\* Product rows

PriceField(i) ==
    CASE i = 1 -> "price_01" [] i = 2 -> "price_02"
      [] i = 3 -> "price_03" [] i = 4 -> "price_04"

PackingField(i) ==
    CASE i = 1 -> "packing_01" [] i = 2 -> "packing_02"
      [] i = 3 -> "packing_03" [] i = 4 -> "packing_04"

\* the columns of Product the handlers read
ProductColumns ==
    {"item_name", "category", "description", "imagesrc",
     "price_01", "price_02", "price_03", "price_04",
     "packing_01", "packing_02", "packing_03", "packing_04",
     "shelf_life_days", "lead_time_days", "is_enabled"}

\* ProductsCreate payloads: every column but is_enabled
ProductsCreate ==
    { [item_name |-> "ladoo", category |-> Some("sweets"), description |-> "d",
       imagesrc |-> "l.png",
       price_01 |-> Some(2), price_02 |-> Some(0), price_03 |-> Null,
       price_04 |-> Some(1),
       packing_01 |-> Some("250g"), packing_02 |-> Some("500g"),
       packing_03 |-> Null, packing_04 |-> Null,
       shelf_life_days |-> 30, lead_time_days |-> 1],
      [item_name |-> "chivda", category |-> Null, description |-> "d",
       imagesrc |-> "c.png",
       price_01 |-> Null, price_02 |-> Null, price_03 |-> Null,
       price_04 |-> Null,
       packing_01 |-> Null, packing_02 |-> Null,
       packing_03 |-> Null, packing_04 |-> Null,
       shelf_life_days |-> 7, lead_time_days |-> 0] }

\* Product(**payload, is_enabled=flag), stored under primary key id
Product(id, payload, flag) ==
    [id |-> id,
     item_name |-> payload.item_name, category |-> payload.category,
     description |-> payload.description, imagesrc |-> payload.imagesrc,
     price_01 |-> payload.price_01, price_02 |-> payload.price_02,
     price_03 |-> payload.price_03, price_04 |-> payload.price_04,
     packing_01 |-> payload.packing_01, packing_02 |-> payload.packing_02,
     packing_03 |-> payload.packing_03, packing_04 |-> payload.packing_04,
     shelf_life_days |-> payload.shelf_life_days,
     lead_time_days |-> payload.lead_time_days,
     is_enabled |-> flag]

\* db.query(Product).filter(Product.id == product_id).first() is not None
ProductExists(product_id) == product_id \in DOMAIN products

\* the Product table without the row product_id
Without(product_id) ==
    [i \in DOMAIN products \ {product_id} |-> products[i]]

----------------------------------------------------------------------------
\* GET /products-state

RECURSIVE VariantsFrom(_, _)
\* the loop "for i in range(1, 5)": a slot is kept when its price is truthy
VariantsFrom(p, i) ==
    IF i > 4 THEN <<>>
    ELSE LET price == p[PriceField(i)]
             packing == p[PackingField(i)]
         IN (IF TruthyNum(price)
             THEN <<[packing |-> OrEmpty(packing), price |-> price[1]]>>
             ELSE <<>>) \o VariantsFrom(p, i + 1)

\* a scan that drops only the null prices
VariantsSkipNullOnly(p) ==
    LET F[i \in 1..5] ==
            IF i > 4 THEN <<>>
            ELSE (IF p[PriceField(i)] # Null
                  THEN <<[packing |-> OrEmpty(p[PackingField(i)]),
                          price |-> p[PriceField(i)][1]]>>
                  ELSE <<>>) \o F[i + 1]
    IN F[1]

Variants(p) == VariantsFrom(p, 1)

\* max((v["price"] for v in variants), default=0)
MaxPriceOf(variants) ==
    IF variants = <<>> THEN 0
    ELSE SetMax({variants[i].price : i \in 1..Len(variants)})

ProductView(p) ==
    [id |-> p.id, item_name |-> p.item_name, category |-> p.category,
     description |-> p.description, image_url |-> p.imagesrc,
     variants |-> Variants(p), max_price |-> MaxPriceOf(Variants(p)),
     shelf_life_days |-> p.shelf_life_days,
     lead_time_days |-> p.lead_time_days, is_enabled |-> p.is_enabled]

get_all_products_with_status(cred) ==
    /\ req' = [op |-> "get_all_products_with_status", cred |-> cred]
    /\ IF ~router(cred) THEN Unauthorized
       ELSE /\ Reply(200, [i \in DOMAIN products |-> ProductView(products[i])])
            /\ UNCHANGED <<products, orders, nextId>>
    /\ Handled

----------------------------------------------------------------------------
\* PATCH /products/{product_id}/toggle and /products/toggle-all

\* a toggle that enables instead of flipping
ToggleSetsTrue(product_id) ==
    /\ products' = [products EXCEPT ![product_id].is_enabled = TRUE]
    /\ Reply(200, [product_id |-> products[product_id].id, new_status |-> TRUE])
    /\ UNCHANGED <<orders, nextId>>

\* product.is_enabled = not product.is_enabled; commit; return the new flag
ToggleFound(product_id) ==
    /\ products' = [products EXCEPT
                       ![product_id].is_enabled = ~products[product_id].is_enabled]
    /\ Reply(200, [product_id |-> products[product_id].id,
                   new_status |-> ~products[product_id].is_enabled])
    /\ UNCHANGED <<orders, nextId>>

toggle_product_status(cred, product_id) ==
    /\ req' = [op |-> "toggle_product_status", cred |-> cred,
               product_id |-> product_id]
    /\ IF ~router(cred) THEN Unauthorized
       ELSE IF ~ProductExists(product_id) THEN NotFound("Product not found")
       ELSE ToggleFound(product_id)
    /\ Handled

\* a toggle-all that counts only the rows it changes
ToggleAllToggledOnly(action) ==
    LET is_enable == (action = "1")
        changed == {i \in DOMAIN products : products[i].is_enabled # is_enable}
    IN /\ products' = [i \in DOMAIN products |->
                          [products[i] EXCEPT !.is_enabled = is_enable]]
       /\ Reply(200, [affected_count |-> Cardinality(changed)])
       /\ UNCHANGED <<orders, nextId>>

\* is_enable = action == "1"; every row gets it; len(products) is returned
ToggleAll(action) ==
    LET is_enable == (action = "1")
    IN /\ products' = [i \in DOMAIN products |->
                          [products[i] EXCEPT !.is_enabled = is_enable]]
       /\ Reply(200, [affected_count |-> Cardinality(DOMAIN products)])
       /\ UNCHANGED <<orders, nextId>>

toggle_all_products(cred, action) ==
    /\ req' = [op |-> "toggle_all_products", cred |-> cred, action |-> action]
    /\ IF ~router(cred) THEN Unauthorized ELSE ToggleAll(action)
    /\ Handled

----------------------------------------------------------------------------
\* POST /products/add

\* where the persistence layer may raise inside the try block
Faults == {"none", "commit", "refresh"}

\* try: add, commit, refresh, return the id
\* except: rollback, print the traceback, raise the 500.
\* A commit that raises leaves nothing behind; a refresh that raises comes
\* after the commit, so the rollback of the except branch undoes nothing.
AddProduct(product, fault) ==
    IF fault = "commit"
    THEN /\ Reply(500, [detail |-> "Failed to add product"])
         /\ UNCHANGED <<products, orders, nextId>>
    ELSE /\ products' = [i \in DOMAIN products \cup {nextId} |->
                            IF i = nextId THEN Product(nextId, product, TRUE)
                            ELSE products[i]]
         /\ nextId' = nextId + 1
         /\ IF fault = "refresh"
            THEN Reply(500, [detail |-> "Failed to add product"])
            ELSE Reply(200, [message |-> "Product added", product_id |-> nextId])
         /\ UNCHANGED orders

add_product(cred, product, fault) ==
    /\ nextId <= MaxProducts
    /\ req' = [op |-> "add_product", cred |-> cred, fault |-> fault]
    /\ IF ~router(cred) THEN Unauthorized ELSE AddProduct(product, fault)
    /\ Handled

----------------------------------------------------------------------------
\* PUT /products/{product_id}

\* attributes every Python object has besides its mapped columns
PyObjectAttributes == {"__class__"}

\* hasattr(product, k)
hasattr(k) == k \in ProductColumns \cup {"id"} \cup PyObjectAttributes

\* setattr(product, k, v) raises TypeError when k is __class__ and v, a JSON
\* value, is not a class
SetattrRaises(k) == k = "__class__"

\* request bodies: JSON objects as sequences of <<key, value>> in key order
Patches ==
    { <<>>,
      << <<"colour", "red">> >>,
      << <<"is_enabled", FALSE>>, <<"colour", "red">> >>,
      << <<"is_enabled", TRUE>> >>,
      << <<"__class__", 1>> >>,
      << <<"is_enabled", TRUE>>, <<"__class__", 1>> >> }

PatchKeys(product_data) ==
    {product_data[i][1] : i \in 1..Len(product_data)}

PatchValue(product_data, k) ==
    LET i == CHOOSE j \in 1..Len(product_data) : product_data[j][1] = k
    IN product_data[i][2]

RECURSIVE ApplyPatch(_, _)
\* for k, v in product_data.items(): if hasattr(product, k): setattr(...)
ApplyPatch(p, product_data) ==
    IF product_data = <<>> THEN [raised |-> FALSE, row |-> p]
    ELSE LET k == Head(product_data)[1]
             v == Head(product_data)[2]
         IN IF ~hasattr(k) THEN ApplyPatch(p, Tail(product_data))
            ELSE IF SetattrRaises(k) THEN [raised |-> TRUE, row |-> p]
            ELSE ApplyPatch([p EXCEPT ![k] = v], Tail(product_data))

\* an exception leaves the handler before db.commit(): nothing is stored
UpdateFound(product_id, product_data) ==
    LET r == ApplyPatch(products[product_id], product_data)
    IN IF r.raised
       THEN /\ Reply(500, [detail |-> "Internal Server Error"])
            /\ UNCHANGED <<products, orders, nextId>>
       ELSE /\ products' = [products EXCEPT ![product_id] = r.row]
            /\ Reply(200, [message |-> "Product updated"])
            /\ UNCHANGED <<orders, nextId>>

update_product(cred, product_id, product_data) ==
    /\ req' = [op |-> "update_product", cred |-> cred,
               product_id |-> product_id, product_data |-> product_data]
    /\ IF ~router(cred) THEN Unauthorized
       ELSE IF ~ProductExists(product_id) THEN NotFound("Product not found")
       ELSE UpdateFound(product_id, product_data)
    /\ Handled

----------------------------------------------------------------------------
\* DELETE /products/{product_id}

\* a delete that answers 200 for a missing row too
DeleteSilently(product_id) ==
    /\ products' = Without(product_id)
    /\ Reply(200, [message |-> "Product deleted"])
    /\ UNCHANGED <<orders, nextId>>

\* the 404 of a missing row, else db.delete(product); db.commit()
DeleteOrNotFound(product_id) ==
    IF ~ProductExists(product_id) THEN NotFound("Product not found")
    ELSE /\ products' = Without(product_id)
         /\ Reply(200, [message |-> "Product deleted"])
         /\ UNCHANGED <<orders, nextId>>

delete_product(cred, product_id) ==
    /\ req' = [op |-> "delete_product", cred |-> cred, product_id |-> product_id]
    /\ IF ~router(cred) THEN Unauthorized ELSE DeleteOrNotFound(product_id)
    /\ Handled

----------------------------------------------------------------------------
\* GET /dashboard/categories

\* group by category, count; rows with a falsy category are dropped
CategoryRows ==
    LET cats == {products[i].category : i \in DOMAIN products}
    IN {[name |-> c[1],
         value |-> Cardinality({i \in DOMAIN products : products[i].category = c})]
        : c \in {d \in cats : TruthyStr(d)}}

product_categories(cred) ==
    /\ req' = [op |-> "product_categories", cred |-> cred]
    /\ IF ~router(cred) THEN Unauthorized
       ELSE /\ Reply(200, CategoryRows)
            /\ UNCHANGED <<products, orders, nextId>>
    /\ Handled

----------------------------------------------------------------------------
\* Order rows

\* the enumerated fulfilment states of OrderStatusUpdate
OrderStatuses == {"pending", "preparing", "delivered"}

\* JSON line items; an absent key is Null
Item(name, quantity, price) ==
    [name |-> name, quantity |-> quantity, price |-> price]

\* the items column holds a parsed list ("json") or its JSON text ("text")
Stored(kind, list) == Some([kind |-> kind, val |-> list])

Order(id, created_at, total_amount, mobile_number, order_status, items) ==
    [id |-> id, created_at |-> created_at, total_amount |-> total_amount,
     mobile_number |-> mobile_number, order_status |-> order_status,
     items |-> items]

----------------------------------------------------------------------------
\* GET /orders

OrdersLimit == 500

\* the orderings .order_by(Order.created_at.desc()) may return
NewestFirst ==
    {s \in [1..Cardinality(DOMAIN orders) -> DOMAIN orders] :
        /\ \A i, j \in DOMAIN s : i # j => s[i] # s[j]
        /\ \A i, j \in DOMAIN s :
              i < j => orders[s[i]].created_at >= orders[s[j]].created_at}

get_orders(cred) ==
    /\ req' = [op |-> "get_orders", cred |-> cred]
    /\ IF ~router(cred) THEN Unauthorized
       ELSE /\ \E s \in NewestFirst :
                 Reply(200, [i \in 1..(IF Len(s) < OrdersLimit THEN Len(s)
                                       ELSE OrdersLimit) |-> orders[s[i]]])
            /\ UNCHANGED <<products, orders, nextId>>
    /\ Handled

----------------------------------------------------------------------------
\* PATCH /orders/{order_id}

\* a status update that also clears the amount
UpdateStatusAndAmount(order_id, order_status) ==
    /\ orders' = [orders EXCEPT ![order_id].order_status = order_status,
                                ![order_id].total_amount = Null]
    /\ Reply(200, orders'[order_id])
    /\ UNCHANGED <<products, nextId>>

\* order.order_status = payload.order_status; commit; refresh; return order
UpdateStatusFound(order_id, order_status) ==
    /\ orders' = [orders EXCEPT ![order_id].order_status = order_status]
    /\ Reply(200, orders'[order_id])
    /\ UNCHANGED <<products, nextId>>

update_order_status(cred, order_id, order_status) ==
    /\ req' = [op |-> "update_order_status", cred |-> cred,
               order_id |-> order_id, order_status |-> order_status]
    /\ IF ~router(cred) THEN Unauthorized
       ELSE IF order_id \notin DOMAIN orders THEN NotFound("Order not found")
       ELSE UpdateStatusFound(order_id, order_status)
    /\ Handled

----------------------------------------------------------------------------
\* GET /dashboard/summary

WeeklyDays == 7
YearlyDays == 365
DefaultDays == 30

Periods == {"weekly", "monthly", "yearly", "daily"}

\* {"weekly": now - 7 days, "yearly": now - 365 days}.get(period, now - 30 days)
StartDate(period, now) ==
    IF period = "weekly" THEN now - WeeklyDays
    ELSE IF period = "yearly" THEN now - YearlyDays
    ELSE now - DefaultDays

\* .filter(Order.created_at >= start_date)
Since(start_date) == {i \in DOMAIN orders : orders[i].created_at >= start_date}

\* SUM(total_amount) over rows: NULLs are skipped, Null when nothing is left
SqlSum(ids) ==
    LET S == {i \in ids : orders[i].total_amount # Null}
    IN IF S = {} THEN Null
       ELSE Some(SetSum(S, [i \in S |-> orders[i].total_amount[1]]))

\* COALESCE(x, 0), and "x or 0" on a sum
Coalesce0(o) == IF o = Null THEN 0 ELSE o[1]

Summary(period, now) ==
    LET ids == Since(StartDate(period, now))
    IN [total_revenue |-> Coalesce0(SqlSum(ids)),
        total_orders |-> Cardinality(ids),
        total_customers |->
            Cardinality({orders[i].mobile_number[1] :
                            i \in {j \in ids : orders[j].mobile_number # Null}})]

dashboard_summary(cred, period) ==
    /\ req' = [op |-> "dashboard_summary", cred |-> cred, period |-> period]
    /\ IF ~router(cred) THEN Unauthorized
       ELSE /\ Reply(200, Summary(period, clock))
            /\ UNCHANGED <<products, orders, nextId>>
    /\ Handled

----------------------------------------------------------------------------
\* GET /dashboard/revenue

\* calendar of the store, on days since the epoch: years of 365 days,
\* months of 31 days (the twelfth is short)
YearOf(day) == day \div 365

MonthOf(day) == (day % 365) \div 31

\* DATE(created_at), YEAR(created_at) or DATE_FORMAT(created_at, '%Y-%m');
\* year-months are numbered in their sorting order
Label(period, created_at) ==
    IF period = "weekly" THEN created_at
    ELSE IF period = "yearly" THEN YearOf(created_at)
    ELSE YearOf(created_at) * 12 + MonthOf(created_at)

\* a revenue series with the date filter of the summary
RevenueRowsSince(period, now) ==
    LET ids == Since(StartDate(period, now))
        names == ScanOrder({Label(period, orders[i].created_at) : i \in ids})
    IN [n \in 1..Len(names) |->
          [name |-> names[n],
           revenue |-> Coalesce0(SqlSum(
               {i \in ids : Label(period, orders[i].created_at) = names[n]}))]]

\* every order is grouped, whatever its date: the query has no filter
RevenueRows(period, now) ==
    LET names == ScanOrder({Label(period, orders[i].created_at) : i \in DOMAIN orders})
    IN [n \in 1..Len(names) |->
          [name |-> names[n],
           revenue |-> Coalesce0(SqlSum(
               {i \in DOMAIN orders :
                   Label(period, orders[i].created_at) = names[n]}))]]

dashboard_revenue(cred, period) ==
    /\ req' = [op |-> "dashboard_revenue", cred |-> cred, period |-> period]
    /\ IF ~router(cred) THEN Unauthorized
       ELSE /\ Reply(200, RevenueRows(period, clock))
            /\ UNCHANGED <<products, orders, nextId>>
    /\ Handled

----------------------------------------------------------------------------
\* GET /dashboard/top-products

TopN == 5

\* "if not items": NULL, an empty list and an empty text are skipped
ItemsFalsy(items) ==
    \/ items = Null
    \/ items[1].kind = "json" /\ items[1].val = <<>>

\* json.loads(items) if isinstance(items, str) else items
Loaded(items) == items[1].val

\* item.get("quantity", 0) and item.get("price", 0)
GetOr0(o) == IF o = Null THEN 0 ELSE o[1]

Position(product_map, name) ==
    CHOOSE i \in 1..Len(product_map) : product_map[i].name = name

\* setdefault(name, {sales: 0, revenue: 0}); sales += qty; revenue += qty*price
Accumulate(product_map, item) ==
    LET qty == GetOr0(item.quantity)
        price == GetOr0(item.price)
    IN IF ~TruthyStr(item.name) THEN product_map
       ELSE LET name == item.name[1]
                known == \E i \in 1..Len(product_map) : product_map[i].name = name
                m == IF known THEN product_map
                     ELSE Append(product_map,
                                 [name |-> name, sales |-> 0, revenue |-> 0])
                at == Position(m, name)
            IN [m EXCEPT ![at].sales = @ + qty,
                         ![at].revenue = @ + qty * price]

RECURSIVE AccumulateAll(_, _)
AccumulateAll(product_map, items) ==
    IF items = <<>> THEN product_map
    ELSE AccumulateAll(Accumulate(product_map, Head(items)), Tail(items))

RECURSIVE ScanOrders(_, _)
\* for (items,) in orders: skip the falsy ones, load and accumulate the rest
ScanOrders(product_map, ids) ==
    IF ids = <<>> THEN product_map
    ELSE LET items == orders[Head(ids)].items
         IN ScanOrders(IF ItemsFalsy(items) THEN product_map
                       ELSE AccumulateAll(product_map, Loaded(items)),
                       Tail(ids))

RECURSIVE InsertDesc(_, _)
\* x goes behind every entry that sells at least as much (a stable sort)
InsertDesc(sorted, x) ==
    IF sorted = <<>> THEN <<x>>
    ELSE IF Head(sorted).sales >= x.sales
         THEN <<Head(sorted)>> \o InsertDesc(Tail(sorted), x)
         ELSE <<x>> \o sorted

RECURSIVE SortedDesc(_, _)
\* sorted(..., key=sales, reverse=True)
SortedDesc(done, rest) ==
    IF rest = <<>> THEN done
    ELSE SortedDesc(InsertDesc(done, Head(rest)), Tail(rest))

FirstN(s, n) == SubSeq(s, 1, IF Len(s) < n THEN Len(s) ELSE n)

\* a ranking that keeps the order of first sale
TopProductsUnsorted(ids) == FirstN(ScanOrders(<<>>, ids), TopN)

TopProducts(ids) ==
    FirstN(SortedDesc(<<>>, ScanOrders(<<>>, ids)), TopN)

top_products(cred) ==
    /\ req' = [op |-> "top_products", cred |-> cred]
    /\ IF ~router(cred) THEN Unauthorized
       ELSE /\ Reply(200, TopProducts(ScanOrder(DOMAIN orders)))
            /\ UNCHANGED <<products, orders, nextId>>
    /\ Handled

----------------------------------------------------------------------------
\* Specifications

NoRequest == [op |-> "none", cred |-> "none"]

NoResponse == [status |-> 0, body |-> <<>>]

Idle ==
    /\ req = NoRequest
    /\ resp = NoResponse
    /\ history = [on |-> FALSE]

ItemsA == <<Item(Some("A"), Some(3), Some(2))>>

\* the whole router over a small catalogue and one order
Init ==
    /\ \/ products = <<>>
       \/ \E payload \in ProductsCreate, flag \in BOOLEAN :
             products = [i \in {1} |-> Product(1, payload, flag)]
    /\ nextId = Cardinality(DOMAIN products) + 1
    /\ orders = [i \in {1} |->
                    Order(1, 793, Some(5), Some("m1"), "pending",
                          Stored("json", ItemsA))]
    /\ clock = 800
    /\ Idle

ProductIds == 1..(MaxProducts + 1)

OrderIds == 1..(MaxOrders + 1)

Next ==
    \E cred \in Credentials :
        \/ get_orders(cred)
        \/ \E order_id \in OrderIds, order_status \in OrderStatuses :
              update_order_status(cred, order_id, order_status)
        \/ \E period \in Periods : dashboard_summary(cred, period)
        \/ \E period \in Periods : dashboard_revenue(cred, period)
        \/ top_products(cred)
        \/ get_all_products_with_status(cred)
        \/ \E product_id \in ProductIds : toggle_product_status(cred, product_id)
        \/ \E action \in {"0", "1"} : toggle_all_products(cred, action)
        \/ \E product \in ProductsCreate, fault \in Faults :
              add_product(cred, product, fault)
        \/ \E product_id \in ProductIds, product_data \in Patches :
              update_product(cred, product_id, product_data)
        \/ \E product_id \in ProductIds : delete_product(cred, product_id)
        \/ product_categories(cred)

Spec == Init /\ [][Next]_vars

\* the whole router over several orders and at most one product
InitOrders ==
    /\ products = <<>>
    /\ nextId = MaxProducts
    /\ \E n \in 1..MaxOrders :
          orders = [i \in 1..n |->
                      Order(i, 800 - WeeklyDays * i, Some(5), Some("m1"),
                            "pending", Stored("json", ItemsA))]
    /\ clock = 800
    /\ Idle

SpecOrders == InitOrders /\ [][Next]_vars

\* successive calls of the product handlers, with the history kept
InitPairs ==
    /\ \E ids \in SUBSET (1..MaxProducts) :
          \E payload \in [ids -> ProductsCreate], flag \in [ids -> BOOLEAN] :
             products = [i \in ids |-> Product(i, payload[i], flag[i])]
    /\ nextId = MaxProducts + 1
    /\ orders = <<>>
    /\ clock = 800
    /\ req = NoRequest
    /\ resp = NoResponse
    /\ history = [on |-> TRUE, before |-> products, prior_req |-> NoRequest,
                  prior_resp |-> NoResponse, prior_before |-> products]

NextPairs ==
    \/ get_all_products_with_status("admin_jwt")
    \/ \E product_id \in ProductIds :
          toggle_product_status("admin_jwt", product_id)
    \/ \E action \in {"0", "1"} : toggle_all_products("admin_jwt", action)
    \/ \E product_id \in ProductIds : delete_product("admin_jwt", product_id)

SpecPairs == InitPairs /\ [][NextPairs]_vars

\* the listing over every filling of the four price/packing slots
SlotPrices == {Null} \cup {Some(v) : v \in 0..MaxPrice}

SlotPackings == {Null, Some("250g")}

InitListing ==
    /\ \E pr \in [1..4 -> SlotPrices], pk \in [1..4 -> SlotPackings],
          more \in BOOLEAN :
          LET first == [item_name |-> "ladoo", category |-> Some("sweets"),
                        description |-> "d", imagesrc |-> "l.png",
                        price_01 |-> pr[1], price_02 |-> pr[2],
                        price_03 |-> pr[3], price_04 |-> pr[4],
                        packing_01 |-> pk[1], packing_02 |-> pk[2],
                        packing_03 |-> pk[3], packing_04 |-> pk[4],
                        shelf_life_days |-> 30, lead_time_days |-> 1]
              second == CHOOSE c \in ProductsCreate : c.item_name = "chivda"
          IN products = [i \in (IF more THEN {1, 2} ELSE {1}) |->
                            IF i = 1 THEN Product(1, first, TRUE)
                            ELSE Product(2, second, FALSE)]
    /\ nextId = Cardinality(DOMAIN products) + 1
    /\ orders = <<>>
    /\ clock = 800
    /\ Idle

NextListing ==
    \E cred \in Credentials :
        \/ get_all_products_with_status(cred)
        \/ product_categories(cred)

SpecListing == InitListing /\ [][NextListing]_vars

\* the dashboards over orders of every age around the three cutoffs
DashAges == {WeeklyDays - 1, WeeklyDays, DefaultDays, YearlyDays}

\* <<total_amount, mobile_number>> of an order
DashSales ==
    {<<Null, Some("m1")>>, <<Some(5), Some("m1")>>, <<Some(3), Some("m2")>>}

InitDash ==
    /\ products = <<>>
    /\ nextId = 1
    /\ \E n \in 0..MaxOrders, items \in {Null, Stored("text", ItemsA)} :
         \E age \in [1..n -> DashAges], sale \in [1..n -> DashSales] :
            orders = [i \in 1..n |->
                        Order(i, 800 - age[i], sale[i][1], sale[i][2],
                              "pending", items)]
    /\ clock = 800
    /\ Idle

\* time passes between two requests
Tick ==
    /\ clock < 800 + MaxTicks
    /\ clock' = clock + 1
    /\ req' = NoRequest
    /\ resp' = NoResponse
    /\ UNCHANGED <<products, orders, nextId, history>>

NextDash ==
    \/ Tick
    \/ \E period \in Periods : dashboard_summary("admin_jwt", period)
    \/ \E period \in Periods : dashboard_revenue("admin_jwt", period)
    \/ top_products("admin_jwt")

SpecDash == InitDash /\ [][NextDash]_vars

\* top_products over every distribution of a pool of line items on the orders
ItemPool ==
    << Item(Some("A"), Some(3), Some(2)), Item(Some("A"), Some(1), Some(2)),
       Item(Some("B"), Some(10), Some(1)), Item(Some("C"), Some(1), Some(1)),
       Item(Some("D"), Some(2), Null), Item(Some("E"), Some(2), Some(3)),
       Item(Some("F"), Null, Some(4)) >>

\* a line item without a name
Nameless == Item(Null, Some(4), Some(1))

InitTop ==
    /\ products = <<>>
    /\ nextId = 1
    /\ \E to \in [1..Len(ItemPool) -> 0..MaxOrders], kind \in {"json", "text"} :
          orders = [i \in 1..MaxOrders |->
                      Order(i, 800 - i, Some(5), Some("m1"), "pending",
                            Stored(kind,
                                (IF i = 1 THEN <<Nameless>> ELSE <<>>) \o
                                SelectSeq(ItemPool,
                                    LAMBDA it : \E j \in 1..Len(ItemPool) :
                                                   ItemPool[j] = it /\ to[j] = i)))]
    /\ clock = 800
    /\ Idle

NextTop == \E cred \in Credentials : top_products(cred)

SpecTop == InitTop /\ [][NextTop]_vars

----------------------------------------------------------------------------
\* Properties

Admin(op) == req.op = op /\ req.cred = "admin_jwt"

AdminStep(op) == req'.op = op /\ req'.cred = "admin_jwt"

\* C1: a request without a valid admin credential, to any endpoint, is
\* answered 401 with no data and changes no Product and no Order row.
C1_UnauthorizedRejected ==
    [][(req'.op # "none" /\ ~get_current_admin(req'.cred)) =>
          /\ resp'.status = 401
          /\ resp'.body = [detail |-> "Not authenticated"]
          /\ products' = products
          /\ orders' = orders
          /\ nextId' = nextId]_vars

C1_Witness ==
    /\ req.op = "delete_product"
    /\ req.cred = "none"
    /\ req.product_id \in DOMAIN products
    /\ resp.status = 401

\* C2: two successive successful toggles of one product leave its flag as it
\* was before the first, and return opposite new_status values; a toggle of
\* an existing product succeeds and returns the stored flag.
C2_ToggleTwice ==
    /\ Admin("toggle_product_status") =>
          IF req.product_id \in DOMAIN history.before
          THEN /\ resp.status = 200
               /\ resp.body.new_status = products[req.product_id].is_enabled
          ELSE resp.status = 404
    /\ ( /\ Admin("toggle_product_status")
         /\ resp.status = 200
         /\ history.prior_req.op = "toggle_product_status"
         /\ history.prior_resp.status = 200
         /\ history.prior_req.product_id = req.product_id ) =>
          /\ products[req.product_id].is_enabled =
                history.prior_before[req.product_id].is_enabled
          /\ resp.body.new_status = ~history.prior_resp.body.new_status

C2_Witness ==
    /\ Admin("toggle_product_status")
    /\ resp.status = 200
    /\ history.prior_req.op = "toggle_product_status"
    /\ history.prior_resp.status = 200
    /\ history.prior_req.product_id = req.product_id
    /\ history.prior_before[req.product_id].is_enabled = FALSE
    /\ history.before[req.product_id].is_enabled = TRUE

\* C3: toggle_all_products leaves every product with the flag the action
\* names and returns the number of products; a listing that follows shows
\* that flag on every product.
C3_ToggleAllUniform ==
    /\ Admin("toggle_all_products") =>
          /\ resp.status = 200
          /\ DOMAIN products = DOMAIN history.before
          /\ \A i \in DOMAIN products :
                products[i].is_enabled = (req.action = "1")
          /\ resp.body.affected_count = Cardinality(DOMAIN history.before)
    /\ ( /\ Admin("get_all_products_with_status")
         /\ history.prior_req.op = "toggle_all_products" ) =>
          /\ DOMAIN resp.body = DOMAIN history.prior_before
          /\ \A i \in DOMAIN resp.body :
                resp.body[i].is_enabled = (history.prior_req.action = "1")
          /\ history.prior_resp.body.affected_count =
                Cardinality(DOMAIN resp.body)

C3_Witness ==
    /\ Admin("get_all_products_with_status")
    /\ history.prior_req.op = "toggle_all_products"
    /\ history.prior_req.action = "0"
    /\ \E i, j \in DOMAIN history.prior_before :
          /\ history.prior_before[i].is_enabled
          /\ ~history.prior_before[j].is_enabled
    /\ history.prior_resp.body.affected_count = 2

\* C4: delete_product answers 404 and changes nothing for an id without a
\* product, removes exactly the product of an existing id, and answers 404
\* to a second delete of an id it has just deleted.
C4_DeleteOrNotFound ==
    /\ Admin("delete_product") =>
          IF req.product_id \in DOMAIN history.before
          THEN /\ resp.status = 200
               /\ DOMAIN products = DOMAIN history.before \ {req.product_id}
               /\ \A i \in DOMAIN products : products[i] = history.before[i]
          ELSE /\ resp.status = 404
               /\ products = history.before
    /\ ( /\ Admin("delete_product")
         /\ history.prior_req.op = "delete_product"
         /\ history.prior_resp.status = 200
         /\ history.prior_req.product_id = req.product_id ) =>
          resp.status = 404

C4_Witness ==
    /\ Admin("delete_product")
    /\ history.prior_req.op = "delete_product"
    /\ history.prior_resp.status = 200
    /\ history.prior_req.product_id = req.product_id
    /\ resp.status = 404
    /\ products # <<>>

\* C5: update_product on an existing product succeeds for every patch, sets
\* the product attributes the patch names to the patch values and changes
\* nothing else; unknown keys raise no error.
C5_UnknownKeysIgnored ==
    [][(AdminStep("update_product") /\ req'.product_id \in DOMAIN products) =>
          LET id == req'.product_id
              patch == req'.product_data
          IN /\ resp'.status = 200
             /\ DOMAIN products' = DOMAIN products
             /\ \A k \in ProductColumns :
                   products'[id][k] =
                      IF k \in PatchKeys(patch) THEN PatchValue(patch, k)
                      ELSE products[id][k]
             /\ \A i \in DOMAIN products \ {id} : products'[i] = products[i]]_vars


\* the days a period looks back in the summary
LookBack(period) ==
    IF period = "weekly" THEN 7 ELSE IF period = "yearly" THEN 365 ELSE 30

Age(i) == clock - orders[i].created_at

\* C6: dashboard_summary counts and sums exactly the orders created at most
\* 7 (weekly), 365 (yearly) or 30 (any other period) days before the call,
\* while dashboard_revenue and top_products take in every order, of any age,
\* for every period.
C6_AsymmetricDateFilter ==
    /\ (Admin("dashboard_summary") /\ resp.status = 200) =>
          LET counted == {i \in DOMAIN orders : Age(i) <= LookBack(req.period)}
          IN /\ resp.body.total_orders = Cardinality(counted)
             /\ resp.body.total_revenue =
                   SetSum(counted,
                          [i \in counted |-> Coalesce0(orders[i].total_amount)])
             /\ resp.body.total_customers =
                   Cardinality({orders[i].mobile_number : i \in counted} \ {Null})
    /\ (Admin("dashboard_revenue") /\ resp.status = 200) =>
          /\ \A i \in DOMAIN orders :
                \E n \in DOMAIN resp.body :
                    resp.body[n].name = Label(req.period, orders[i].created_at)
          /\ SumSeq([n \in DOMAIN resp.body |-> resp.body[n].revenue]) =
                SetSum(DOMAIN orders,
                       [i \in DOMAIN orders |-> Coalesce0(orders[i].total_amount)])
    /\ (Admin("top_products") /\ resp.status = 200) =>
          \A i \in DOMAIN orders :
              orders[i].items # Null =>
                 /\ Len(resp.body) = 1
                 /\ resp.body[1].name = "A"
                 /\ resp.body[1].sales = 3 * Cardinality(DOMAIN orders)

C6_Witness ==
    /\ Admin("dashboard_summary")
    /\ req.period = "weekly"
    /\ \E i, j \in DOMAIN orders :
          /\ Age(i) = 8
          /\ orders[i].total_amount # Null
          /\ Age(j) = 7
    /\ resp.body.total_orders < Cardinality(DOMAIN orders)

\* the line items of every order, as the scan meets them
AllItems ==
    LET F[n \in 0..Cardinality(DOMAIN orders)] ==
            IF n = 0 THEN <<>>
            ELSE F[n - 1] \o (IF orders[n].items = Null THEN <<>>
                              ELSE orders[n].items[1].val)
    IN F[Cardinality(DOMAIN orders)]

Named(name) ==
    {k \in 1..Len(AllItems) : AllItems[k].name = Some(name)}

SoldNames ==
    {AllItems[k].name[1] :
        k \in {j \in 1..Len(AllItems) :
                  AllItems[j].name # Null /\ AllItems[j].name # Some("")}}

TotalSales(name) ==
    SetSum(Named(name), [k \in Named(name) |-> GetOr0(AllItems[k].quantity)])

TotalRevenue(name) ==
    SetSum(Named(name),
           [k \in Named(name) |->
               GetOr0(AllItems[k].quantity) * GetOr0(AllItems[k].price)])

\* C7: top_products returns at most 5 entries, one per item name, each with
\* the name's total quantity and total quantity times price over all orders,
\* in descending order of sales, leaving out no name that sold more than a
\* returned one; nameless items and empty orders add nothing.
C7_TopProductsRanking ==
    (Admin("top_products") /\ resp.status = 200) =>
       LET body == resp.body
           shown == {body[n].name : n \in DOMAIN body}
       IN /\ Len(body) <= 5
          /\ Len(body) = (IF Cardinality(SoldNames) < 5
                          THEN Cardinality(SoldNames) ELSE 5)
          /\ shown \subseteq SoldNames
          /\ \A m, n \in DOMAIN body : m # n => body[m].name # body[n].name
          /\ \A n \in DOMAIN body :
                /\ body[n].sales = TotalSales(body[n].name)
                /\ body[n].revenue = TotalRevenue(body[n].name)
          /\ \A m, n \in DOMAIN body : m < n => body[m].sales >= body[n].sales
          /\ \A name \in SoldNames \ shown :
                \A n \in DOMAIN body : TotalSales(name) <= body[n].sales

C7_Witness ==
    /\ Admin("top_products")
    /\ resp.status = 200
    /\ resp.body = << [name |-> "B", sales |-> 10, revenue |-> 10],
                      [name |-> "A", sales |-> 4, revenue |-> 8] >>
    /\ \E i \in DOMAIN orders : orders[i].items[1].val = <<>>

SlotsKept(p) ==
    {k \in 1..4 : p[PriceField(k)] # Null /\ p[PriceField(k)][1] # 0}

\* the slot of the n-th variant: the n-th of the kept slots
SlotOf(p, n) ==
    CHOOSE k \in SlotsKept(p) :
        Cardinality({j \in SlotsKept(p) : j <= k}) = n

\* what the listing must show of a product, but for the packings
ListedBut(p, view, PackingShown(_, _)) ==
    /\ Len(view.variants) = Cardinality(SlotsKept(p))
    /\ \A n \in 1..Len(view.variants) :
          /\ view.variants[n].price = p[PriceField(SlotOf(p, n))][1]
          /\ PackingShown(view.variants[n].packing,
                          p[PackingField(SlotOf(p, n))])
    /\ view.max_price =
          (IF SlotsKept(p) = {} THEN 0
           ELSE SetMax({p[PriceField(k)][1] : k \in SlotsKept(p)}))
    /\ \A n \in 1..Len(view.variants) : view.max_price >= view.variants[n].price

PackingAsStored(shown, stored) == Some(shown) = stored

PackingOrEmpty(shown, stored) ==
    shown = (IF stored = Null THEN "" ELSE stored[1])

\* C8 as stated: the variants are the (packing, price) pairs of the slots
\* with a non-null, non-zero price, in slot order, max_price is their largest
\* price or 0, and the listing changes no product.
C8_VariantsAsStored ==
    [][AdminStep("get_all_products_with_status") =>
          /\ products' = products
          /\ DOMAIN resp'.body = DOMAIN products
          /\ \A i \in DOMAIN products :
                ListedBut(products[i], resp'.body[i], PackingAsStored)]_vars

\* C8, amended: as above, with a null packing shown as the empty string.
C8_VariantsOfSlots ==
    [][AdminStep("get_all_products_with_status") =>
          /\ products' = products
          /\ DOMAIN resp'.body = DOMAIN products
          /\ \A i \in DOMAIN products :
                ListedBut(products[i], resp'.body[i], PackingOrEmpty)]_vars

C8_Witness ==
    /\ Admin("get_all_products_with_status")
    /\ resp.status = 200
    /\ DOMAIN products = {1, 2}
    /\ products[1].price_01 = Some(0)
    /\ products[1].price_02 = Some(1)
    /\ products[1].price_03 = Null
    /\ products[1].price_04 = Some(2)
    /\ products[1].packing_02 = Null
    /\ resp.body[1].variants = << [packing |-> "", price |-> 1],
                                  [packing |-> "250g", price |-> 2] >>
    /\ resp.body[1].max_price = 2
    /\ resp.body[2].max_price = 0

\* C9: update_order_status answers 404 and changes nothing for an unknown
\* id, and otherwise stores the requested status, whatever the current one,
\* and returns the order; no handler adds or removes an order or changes
\* another field of one.
C9_OrdersOnlyStatus ==
    [][/\ DOMAIN orders' = DOMAIN orders
       /\ \A i \in DOMAIN orders :
             orders'[i] = [orders[i] EXCEPT !.order_status = orders'[i].order_status]
       /\ req'.op # "update_order_status" => orders' = orders
       /\ AdminStep("update_order_status") =>
             IF req'.order_id \notin DOMAIN orders
             THEN resp'.status = 404 /\ orders' = orders
             ELSE /\ resp'.status = 200
                  /\ orders'[req'.order_id].order_status = req'.order_status
                  /\ resp'.body = orders'[req'.order_id]
                  /\ \A j \in DOMAIN orders \ {req'.order_id} :
                        orders'[j] = orders[j]]_vars

C9_Witness ==
    /\ Admin("update_order_status")
    /\ resp.status = 200
    /\ req.order_status = "pending"
    /\ resp.body.order_status = "pending"
    /\ \E j \in DOMAIN orders : orders[j].order_status = "delivered"

\* C10: add_product either adds exactly one enabled product and returns its
\* id, or, on any failure of the persistence layer, answers 500 and leaves
\* the Product table as it was.
C10_AddAllOrNothing ==
    [][AdminStep("add_product") =>
          IF req'.fault = "none"
          THEN /\ resp'.status = 200
               /\ resp'.body.product_id \notin DOMAIN products
               /\ DOMAIN products' = DOMAIN products \cup {resp'.body.product_id}
               /\ products'[resp'.body.product_id].is_enabled
               /\ products'[resp'.body.product_id].id = resp'.body.product_id
               /\ \A i \in DOMAIN products : products'[i] = products[i]
          ELSE /\ resp'.status = 500
               /\ products' = products]_vars

====
